---- MODULE Spec2Model ----
(***************************************************************************)
(* Model of whisper/model.py: the Whisper facade over the OpenVINO audio   *)
(* encoder and text decoder, and the key/value cache it allocates.         *)
(*                                                                         *)
(* A tensor is modelled by its shape and, for a cache, by one value per    *)
(* text position: data[p] is the value of every element of the slice       *)
(* [:, :, p-1, :] (0 = the slice is all zeros, t > 0 = the slice holds the   *)
(* keys/values computed from tokens tagged t).  The inference engine is an *)
(* external pure function; its results are modelled as uninterpreted terms *)
(* over its inputs, so two results are equal exactly when the inputs were. *)
(*                                                                         *)
(* Both adapters call the compiled model with share_outputs=True: what     *)
(* they return are views of the compiled model's output tensors.  The      *)
(* content of that memory is kept where it is seen: in the holders of a    *)
(* view, which every later inference of the same compiled model updates.   *)
(***************************************************************************)
EXTENDS Integers, Sequences, FiniteSets, TLC

VARIABLES
    type,       \* Whisper.type: the variant name given to the constructor
    dims,       \* Whisper.dims: the ModelDimensions given to the constructor
    heap,       \* live numpy buffers made by np.zeros: id -> [shape, data]
    ccache,     \* the buffer id a direct caller of new_kv_cache holds (0 = none)
    engineWork, \* which compiled engines have been invoked so far
    ret,        \* outcome of the last call on the Whisper object / adapters
    sess,       \* the decoding sessions: session -> state
    plan        \* the inputs shared by the sessions (identical for all)

vars == <<type, dims, heap, ccache, engineWork, ret, sess, plan>>

-----------------------------------------------------------------------------
(* Bounds of the model. *)
MaxGroup == 2
MaxLen == 3
MaxMel == 2

Groups == 1..MaxGroup
Lengths == 1..MaxLen
\* the lengths a direct caller of new_kv_cache passes: the small ones and the
\* text context of the end-to-end scenario
AllocLengths == Lengths \cup {448}
Mels == 1..MaxMel
Sessions == {1, 2}

SupportedNames ==
    {"tiny", "tiny.en", "base", "base.en", "small", "small.en",
     "medium", "medium.en", "large"}
OtherNames == {"large-v2", "huge"}
Names == SupportedNames \cup OtherNames

\* ModelDimensions, restricted to the two fields of the text stack that fix
\* the cache geometry.
ModelDimensions ==
    { [n_text_layer |-> 4,  n_text_state |-> 384],
      [n_text_layer |-> 6,  n_text_state |-> 512],
      [n_text_layer |-> 12, n_text_state |-> 768],
      [n_text_layer |-> 24, n_text_state |-> 1024],
      [n_text_layer |-> 32, n_text_state |-> 1280] }

-----------------------------------------------------------------------------
(* Whisper.new_kv_cache *)

\* the empty size stands for `raise ValueError("Unsupported model type")`
Unsupported == << >>

\* a variant of new_kv_cache_size whose last branch is the default
new_kv_cache_size_default_large(self_type, self_dims, n_group, length) ==
    IF self_type = "tiny.en" \/ self_type = "tiny" THEN <<8, n_group, length, 384>>
    ELSE IF self_type = "base.en" \/ self_type = "base" THEN <<12, n_group, length, 512>>
    ELSE IF self_type = "small.en" \/ self_type = "small" THEN <<24, n_group, length, 768>>
    ELSE IF self_type = "medium.en" \/ self_type = "medium" THEN <<48, n_group, length, 1024>>
    ELSE <<64, n_group, length, 1280>>

\* a variant of new_kv_cache_size with the small and base rows exchanged
new_kv_cache_size_swapped(self_type, self_dims, n_group, length) ==
    IF self_type = "tiny.en" \/ self_type = "tiny" THEN <<8, n_group, length, 384>>
    ELSE IF self_type = "base.en" \/ self_type = "base" THEN <<24, n_group, length, 768>>
    ELSE IF self_type = "small.en" \/ self_type = "small" THEN <<12, n_group, length, 512>>
    ELSE IF self_type = "medium.en" \/ self_type = "medium" THEN <<48, n_group, length, 1024>>
    ELSE IF self_type = "large" THEN <<64, n_group, length, 1280>>
    ELSE Unsupported

\* lines 101-112: the size chosen by the chain of comparisons on self.type;
\* self.dims is in scope but never read
new_kv_cache_size(self_type, self_dims, n_group, length) ==
    IF self_type = "tiny.en" \/ self_type = "tiny" THEN <<8, n_group, length, 384>>
    ELSE IF self_type = "base.en" \/ self_type = "base" THEN <<12, n_group, length, 512>>
    ELSE IF self_type = "small.en" \/ self_type = "small" THEN <<24, n_group, length, 768>>
    ELSE IF self_type = "medium.en" \/ self_type = "medium" THEN <<48, n_group, length, 1024>>
    ELSE IF self_type = "large" THEN <<64, n_group, length, 1280>>
    ELSE Unsupported

\* np.empty: the buffer holds whatever the memory held
np_empty(size) == [shape |-> size, data |-> [p \in 1..size[3] |-> 1]]

\* line 113: np.zeros(size, dtype=np.float32)
np_zeros(size) == [shape |-> size, data |-> [p \in 1..size[3] |-> 0]]

\* np.zeros returns a new array: its memory is disjoint from every live array
FreshId(h) == CHOOSE i \in 1..(Cardinality(DOMAIN h) + 1) : i \notin DOMAIN h

NoBuf == [shape |-> << >>, data |-> << >>]

-----------------------------------------------------------------------------
(* Tensors handed to the model *)

\* token tensors: rank 1 (length), rank 2 (group, length) and rank 3
TokenShapes ==
    { <<l>> : l \in Lengths }
    \cup { <<g, l>> : g \in Groups, l \in Lengths }
    \cup { <<g, m, l>> : g \in Groups, m \in Groups, l \in Lengths }

\* tokens.shape[0] and tokens.shape[-1]
First(shape) == shape[1]
Last(shape) == shape[Len(shape)]

\* the tokens a decoding session evaluates and the start tokens a one-step
\* call evaluates, told apart by a tag
Tag == [session |-> 1, start |-> 2]
SessionTag == Tag.session
StartTag == Tag.start
\* the audio every session transcribes: the first mel input
SessionMel == CHOOSE m \in Mels : \A n \in Mels : m <= n

NoFeatures == [mel |-> 0]
NoTokens == [shape |-> << >>, tag |-> 0]
NoLogits == [tokens |-> NoTokens, xa |-> NoFeatures, kv |-> NoBuf, offset |-> -1]
NoCall == [tokens |-> NoTokens, cache |-> << >>, id |-> 0, offset |-> -1]

-----------------------------------------------------------------------------
(* The inference engine (external): a deterministic function of its inputs *)

\* the encoder graph: audio features as a term over the mel input
EncoderEngine(mel) == [mel |-> mel]

\* what the decoder graph requires of a call
StepPrecondition(tokens, cache, offset) ==
    /\ First(tokens.shape) = cache.shape[2]
    /\ offset + Last(tokens.shape) <= cache.shape[3]

\* output_kv_cache: the input cache with the positions of this step written
WriteCache(tokens, cache, offset) ==
    [shape |-> cache.shape,
     data  |-> [p \in 1..Len(cache.data) |->
                   IF p > offset /\ p <= offset + Last(tokens.shape)
                   THEN tokens.tag ELSE cache.data[p]]]

\* the outcomes of one decoder inference.  Within the precondition the graph
\* yields logits and the written cache.  Outside it the outcome is the
\* engine's: it either reports a failure or computes on what fits.
DecoderEngine(tokens, xa, cache, offset) ==
    LET done == [status |-> "ok",
                 logits |-> [tokens |-> tokens, xa |-> xa, kv |-> cache, offset |-> offset],
                 kv     |-> WriteCache(tokens, cache, offset)]
        failed == [status |-> "DecodingFailed", logits |-> NoLogits, kv |-> NoBuf]
    IN  IF StepPrecondition(tokens, cache, offset) THEN {done} ELSE {done, failed}

-----------------------------------------------------------------------------
(* The adapters *)

\* OpenVinoAudioEncoder.forward: one inference, its result returned
OpenVinoAudioEncoder_forward(x) == EncoderEngine(x)

\* OpenVinoTextDecoder.forward: the four inputs are handed to the compiled
\* model as they are; there is no check of offset against the cache length
OpenVinoTextDecoder_forward(x, xa, kv_cache, offset) ==
    DecoderEngine(x, xa, kv_cache, offset)

\* the arguments Whisper.logits and Whisper.forward pass to new_kv_cache,
\* had they used the first dimension for both
kv_cache_args_first(shape) == <<First(shape), First(shape)>>

\* lines 87 and 92: new_kv_cache(tokens.shape[0], tokens.shape[-1])
kv_cache_args(shape) == <<First(shape), Last(shape)>>

\* lines 88 and 93: offset=0
one_step_offset(shape) == 0

-----------------------------------------------------------------------------
(* State *)

\* the outcome of a call: args and size are those of new_kv_cache, id the
\* buffer it returned, call the decoder inference the call issued
Ret(op, status, args, size, id, call) ==
    [op |-> op, status |-> status, args |-> args, size |-> size, id |-> id,
     call |-> call]

\* a session's hold on its cache: a numpy buffer of the heap (np.zeros), a
\* view of the decoder's output tensor, or memory no later inference writes
NoCache == [kind |-> "none", id |-> 0, buf |-> NoBuf]
HeapCache(id) == [kind |-> "heap", id |-> id, buf |-> NoBuf]
ViewCache(buf) == [kind |-> "view", id |-> 0, buf |-> buf]
OwnCache(buf) == [kind |-> "own", id |-> 0, buf |-> buf]

IdleSession ==
    [phase |-> "idle", af |-> NoFeatures, cache |-> NoCache, offset |-> 0,
     out |-> << >>]

NoPlan == [group |-> 0, maxlen |-> 0, steps |-> << >>]

\* Whisper.__init__: type and dims are stored as given, the two adapters are
\* built for the name; nothing has run yet
Init ==
    /\ type \in Names
    /\ dims \in ModelDimensions
    /\ heap = << >>
    /\ ccache = 0
    /\ engineWork = {}
    /\ ret = Ret("init", "ok", << >>, << >>, 0, NoCall)
    /\ sess = [s \in Sessions |-> IdleSession]
    /\ plan = NoPlan

\* the heap without the buffers in ids
Free(h, ids) == [i \in DOMAIN h \ ids |-> h[i]]
\* the heap with one more buffer
Put(h, id, buf) == [i \in DOMAIN h \cup {id} |-> IF i = id THEN buf ELSE h[i]]

\* share_outputs=True, encoder: the features every session holds are a view
\* of the encoder's output tensor, which this inference has written
SharedEncoderOutput(ss, xa) ==
    [t \in Sessions |-> IF ss[t].phase = "active" THEN [ss[t] EXCEPT !.af = xa] ELSE ss[t]]

\* share_outputs=True, decoder: every held view of output_kv_cache shows what
\* this inference has written
SharedDecoderOutput(ss, o) ==
    [t \in Sessions |->
        IF ss[t].cache.kind = "view" /\ o.status = "ok"
        THEN [ss[t] EXCEPT !.cache = ViewCache(o.kv)] ELSE ss[t]]

-----------------------------------------------------------------------------
(* Operations of Whisper, called directly *)

\* Whisper.new_kv_cache(n_group, length); the caller keeps the result in
\* place of the cache it held
NewKvCache(n_group, length) ==
    LET size == new_kv_cache_size(type, dims, n_group, length)
        id == FreshId(heap)
    IN  /\ IF size = Unsupported
           THEN /\ ret' = Ret("new_kv_cache", "ValueError", <<n_group, length>>,
                            << >>, 0, NoCall)
                /\ UNCHANGED <<heap, ccache>>
           ELSE /\ ret' = Ret("new_kv_cache", "ok", <<n_group, length>>, size, id, NoCall)
                /\ heap' = Free(Put(heap, id, np_zeros(size)), {ccache})
                /\ ccache' = id
        /\ UNCHANGED <<type, dims, engineWork, sess, plan>>

\* Whisper.embed_audio(mel)
EmbedAudio(mel) ==
    /\ sess' = SharedEncoderOutput(sess, OpenVinoAudioEncoder_forward(mel))
    /\ engineWork' = engineWork \cup {"encoder"}
    /\ ret' = Ret("embed_audio", "ok", << >>, << >>, 0, NoCall)
    /\ UNCHANGED <<type, dims, heap, ccache, plan>>

\* Whisper.logits(tokens, audio_features)
Logits(shape, xa) ==
    LET args == kv_cache_args(shape)
        size == new_kv_cache_size(type, dims, args[1], args[2])
        id == FreshId(heap)
        tokens == [shape |-> shape, tag |-> StartTag]
        offset == one_step_offset(shape)
        call == [tokens |-> tokens, cache |-> size, id |-> id, offset |-> offset]
    IN  /\ IF size = Unsupported
           THEN /\ ret' = Ret("logits", "ValueError", << >>, << >>, 0, NoCall)
                /\ UNCHANGED <<sess, engineWork>>
           ELSE \E o \in OpenVinoTextDecoder_forward(tokens, xa, np_zeros(size), offset) :
                /\ engineWork' = engineWork \cup {"decoder"}
                /\ sess' = SharedDecoderOutput(sess, o)
                /\ ret' = Ret("logits", o.status, << >>, << >>, 0, call)
        /\ UNCHANGED <<type, dims, heap, ccache, plan>>

\* Whisper.forward(mel, tokens): the cache is made first, then the encoder
\* runs, then the decoder
Forward(mel, shape) ==
    LET args == kv_cache_args(shape)
        size == new_kv_cache_size(type, dims, args[1], args[2])
        id == FreshId(heap)
        tokens == [shape |-> shape, tag |-> StartTag]
        offset == one_step_offset(shape)
        xa == OpenVinoAudioEncoder_forward(mel)
        call == [tokens |-> tokens, cache |-> size, id |-> id, offset |-> offset]
    IN  /\ IF size = Unsupported
           THEN /\ ret' = Ret("forward", "ValueError", << >>, << >>, 0, NoCall)
                /\ UNCHANGED <<sess, engineWork>>
           ELSE \E o \in OpenVinoTextDecoder_forward(tokens, xa, np_zeros(size), offset) :
                /\ engineWork' = engineWork \cup {"encoder", "decoder"}
                /\ sess' = SharedDecoderOutput(SharedEncoderOutput(sess, xa), o)
                /\ ret' = Ret("forward", o.status, << >>, << >>, 0, call)
        /\ UNCHANGED <<type, dims, heap, ccache, plan>>

\* OpenVinoTextDecoder.forward called directly on the cache the caller holds,
\* with any tokens and any offset
DecoderForward(g, l, xa, offset) ==
    /\ ccache # 0
    /\ LET tokens == [shape |-> <<g, l>>, tag |-> StartTag]
           cache == heap[ccache]
           call == [tokens |-> tokens, cache |-> cache.shape, id |-> ccache,
                    offset |-> offset]
       IN  \E o \in OpenVinoTextDecoder_forward(tokens, xa, cache, offset) :
            /\ engineWork' = engineWork \cup {"decoder"}
            /\ sess' = SharedDecoderOutput(sess, o)
            /\ ret' = Ret("decoder", o.status, << >>, << >>, 0, call)
    /\ UNCHANGED <<type, dims, heap, ccache, plan>>

-----------------------------------------------------------------------------
(* The decoding session that drives the model: Init, Step, Terminal *)

CacheOf(c) == IF c.kind = "heap" THEN heap[c.id] ELSE c.buf

HeapIds(c) == IF c.kind = "heap" THEN {c.id} ELSE {}

\* Whether a later inference writes the memory a returned view refers to is
\* the engine's: it reuses its output tensor ("view") or has moved on to
\* other memory by then ("own").
Returned == {"view", "own"}

\* the orchestrator issues a step only if it fits the allocated length
StepFits(offset, l, maxlen) == offset + l <= maxlen

\* an offset that restarts at the length of each step
AdvanceRestart(offset, l) == l

\* the offset advances by the number of tokens the step consumed
Advance(offset, l) == offset + l

\* Init: encode the audio once, allocate the cache, offset 0
SessionInit(s, g, ml) ==
    /\ sess[s].phase = "idle"
    /\ plan.group # 0 => (g = plan.group /\ ml = plan.maxlen)
    /\ LET xa == OpenVinoAudioEncoder_forward(SessionMel)
           size == new_kv_cache_size(type, dims, g, ml)
           id == FreshId(heap)
           seen == SharedEncoderOutput(sess, xa)
       IN  /\ engineWork' = engineWork \cup {"encoder"}
           /\ IF size = Unsupported
              THEN /\ sess' = [seen EXCEPT ![s] = [IdleSession EXCEPT !.phase = "failed"]]
                   /\ ret' = Ret("session_init", "ValueError", <<g, ml>>, << >>, 0, NoCall)
                   /\ heap' = heap
              ELSE /\ sess' = [seen EXCEPT ![s] =
                         [phase |-> "active", af |-> xa, cache |-> HeapCache(id),
                          offset |-> 0, out |-> << >>]]
                   /\ ret' = Ret("session_init", "ok", <<g, ml>>, size, id, NoCall)
                   /\ heap' = Put(heap, id, np_zeros(size))
    /\ plan' = [plan EXCEPT !.group = g, !.maxlen = ml]
    /\ UNCHANGED <<type, dims, ccache>>

\* Step: one decoder call at the current offset; the cache is rebound to the
\* returned value and the offset advanced
SessionStep(s, l, r) ==
    /\ sess[s].phase = "active"
    /\ StepFits(sess[s].offset, l, plan.maxlen)
    /\ LET k == Len(sess[s].out) + 1
           tokens == [shape |-> <<plan.group, l>>, tag |-> SessionTag]
           cache == CacheOf(sess[s].cache)
           offset == sess[s].offset
           call == [tokens |-> tokens, cache |-> cache.shape, id |-> sess[s].cache.id,
                    offset |-> offset]
       IN  /\ k <= Len(plan.steps) => l = plan.steps[k]
           /\ plan' = IF k <= Len(plan.steps) THEN plan
                      ELSE [plan EXCEPT !.steps = Append(@, l)]
           /\ \E o \in OpenVinoTextDecoder_forward(tokens, sess[s].af, cache, offset) :
                /\ engineWork' = engineWork \cup {"decoder"}
                /\ ret' = Ret("session_step", o.status, << >>, << >>, 0, call)
                /\ heap' = Free(heap, HeapIds(sess[s].cache))
                /\ LET seen == SharedDecoderOutput(sess, o)
                   IN  IF o.status = "ok"
                       THEN sess' = [seen EXCEPT ![s] =
                              [@ EXCEPT !.cache = IF r = "view" THEN ViewCache(o.kv)
                                                  ELSE OwnCache(o.kv),
                                        !.offset = Advance(offset, l),
                                        !.out = Append(@, o.logits)]]
                       ELSE sess' = [seen EXCEPT ![s] =
                              [@ EXCEPT !.phase = "failed", !.cache = NoCache]]
    /\ UNCHANGED <<type, dims, ccache>>

\* Terminal: the session discards its cache and audio features
SessionEnd(s) ==
    /\ sess[s].phase \in {"active", "failed"}
    /\ heap' = Free(heap, HeapIds(sess[s].cache))
    /\ sess' = [sess EXCEPT ![s] = IdleSession]
    /\ ret' = Ret("session_end", "ok", << >>, << >>, 0, NoCall)
    /\ UNCHANGED <<type, dims, ccache, engineWork, plan>>

-----------------------------------------------------------------------------
Features == { EncoderEngine(m) : m \in Mels }

\* Whisper.new_kv_cache, called with any group count and length
Next ==
    \/ \E g \in Groups, l \in AllocLengths : NewKvCache(g, l)

Spec == Init /\ [][Next]_vars

\* the calls of Whisper that reach the engines, in any order
CallNext ==
    \/ \E m \in Mels : EmbedAudio(m)
    \/ \E sh \in TokenShapes, xa \in Features : Logits(sh, xa)
    \/ \E m \in Mels, sh \in TokenShapes : Forward(m, sh)

CallSpec == Init /\ [][CallNext]_vars

\* the decoder adapter called directly on a cache of new_kv_cache
AdapterNext ==
    \/ \E g \in Groups, l \in Lengths : NewKvCache(g, l)
    \/ \E g \in Groups, l \in Lengths, xa \in Features, off \in 0..MaxLen :
          DecoderForward(g, l, xa, off)

AdapterSpec == Init /\ [][AdapterNext]_vars

\* one decoding session, with language-detection calls (Whisper.logits on a
\* single start token per group) at any point of it
SessionNext ==
    \/ \E g \in Groups : Logits(<<g, 1>>, EncoderEngine(SessionMel))
    \/ \E g \in Groups, ml \in Lengths : SessionInit(1, g, ml)
    \/ \E l \in Lengths, r \in Returned : SessionStep(1, l, r)
    \/ SessionEnd(1)

SessionSpec == Init /\ [][SessionNext]_vars

\* two decoding sessions with identical inputs over one model, interleaved
PairNext ==
    \/ \E s \in Sessions, g \in Groups, ml \in Lengths : SessionInit(s, g, ml)
    \/ \E s \in Sessions, l \in Lengths, r \in Returned : SessionStep(s, l, r)
    \/ \E s \in Sessions : SessionEnd(s)

PairSpec == Init /\ [][PairNext]_vars

-----------------------------------------------------------------------------
(* Properties *)

\* the geometry table of the cache manager: (slot count, embedding width)
Geometry(name) ==
    CASE name \in {"tiny", "tiny.en"}     -> <<8, 384>>
      [] name \in {"base", "base.en"}     -> <<12, 512>>
      [] name \in {"small", "small.en"}   -> <<24, 768>>
      [] name \in {"medium", "medium.en"} -> <<48, 1024>>
      [] name = "large"                   -> <<64, 1280>>

ZeroFilled(buf) == \A p \in 1..Len(buf.data) : buf.data[p] = 0

\* the step length of a decoder call overruns the cache it was given
Overflows(call) == call.offset + Last(call.tokens.shape) > call.cache[3]

RECURSIVE SumTo(_, _)
\* the sum of the first n entries of a sequence of step lengths
SumTo(steps, n) == IF n = 0 THEN 0 ELSE steps[n] + SumTo(steps, n - 1)

\* C1: for every supported variant name and every n_group and length,
\* new_kv_cache returns a cache of shape (slot_count, n_group, length,
\* embedding_width) with (slot_count, embedding_width) as in the table.
C1_AllocShape ==
    (ret.op = "new_kv_cache" /\ type \in SupportedNames) =>
        /\ ret.status = "ok"
        /\ ret.size = <<Geometry(type)[1], ret.args[1], ret.args[2], Geometry(type)[2]>>
        /\ heap[ret.id].shape = ret.size

\* base with n_group = 1 and length = 448 has been allocated
C1_Witness ==
    /\ ret.op = "new_kv_cache" /\ type = "base" /\ ret.args = <<1, 448>>
    /\ ret.size = <<12, 1, 448, 512>>

\* C2: every cache new_kv_cache returns has 2 * dims.n_text_layer slots and
\* an embedding width of dims.n_text_state.
C2_GeometryFromDims ==
    (ret.op = "new_kv_cache" /\ ret.status = "ok") =>
        /\ ret.size[1] = 2 * dims.n_text_layer
        /\ ret.size[4] = dims.n_text_state

\* C3: for a variant name outside the table new_kv_cache fails (ValueError,
\* the unsupported-architecture failure) and returns no cache, for every
\* n_group and length; type and dims stay as they were.
C3_UnsupportedFails ==
    /\ [](   (ret.op = "new_kv_cache" /\ type \notin SupportedNames)
          => (/\ ret.status = "ValueError" /\ ret.id = 0 /\ ret.size = << >>
              /\ ccache = 0 /\ heap = << >>))
    /\ [][type' = type /\ dims' = dims]_vars

\* new_kv_cache has failed on an unsupported name
C3_Witness ==
    /\ ret.op = "new_kv_cache" /\ ret.status = "ValueError"
    /\ type = "large-v2" /\ ret.args = <<2, 448>>

\* C4: every cache new_kv_cache returns is zero at every position, and is a
\* new buffer: none of the buffers live at the call.
C4_ZeroFilledFresh ==
    [][ ((\E g \in Groups, l \in AllocLengths : NewKvCache(g, l)) /\ ret'.status = "ok")
        => (/\ ret'.id \notin DOMAIN heap
            /\ ret'.id \in DOMAIN heap'
            /\ ZeroFilled(heap'[ret'.id])
            /\ Len(heap'[ret'.id].data) = ret'.args[2]) ]_vars

\* a cache has been allocated while an earlier one was still held
C4_Witness ==
    /\ ret.op = "new_kv_cache" /\ ret.status = "ok" /\ ret.id = 2
    /\ ccache = 2 /\ ZeroFilled(heap[2])

\* C5: a decoder step called with offset + step_len > cache.running_length
\* is rejected: it yields no logits and no updated cache.
C5_OverflowRejected ==
    (ret.op = "decoder" /\ Overflows(ret.call)) => ret.status # "ok"

\* C6: within a session the offset starts at 0, is after each Step the sum of
\* the token counts of the Steps so far, never decreases while the session
\* lasts, and no Step is issued with offset + step_len > max_length.
C6_OffsetMonotone ==
    /\ [](\A s \in Sessions : sess[s].phase = "active" =>
             /\ sess[s].offset = SumTo(plan.steps, Len(sess[s].out))
             /\ sess[s].offset <= plan.maxlen)
    /\ [](ret.op = "session_step" =>
             ret.call.offset + Last(ret.call.tokens.shape) <= plan.maxlen)
    /\ [][\A s \in Sessions :
             (sess[s].phase = "active" /\ sess'[s].phase = "active")
                 => sess'[s].offset >= sess[s].offset]_vars
    /\ [][\A s \in Sessions :
             (sess[s].phase # "active" /\ sess'[s].phase = "active")
                 => sess'[s].offset = 0]_vars

\* a session has made two Steps and filled its cache
C6_Witness ==
    \E s \in Sessions :
        /\ sess[s].phase = "active" /\ Len(sess[s].out) >= 2
        /\ sess[s].offset = plan.maxlen /\ ret.op = "session_step"

\* C7: Whisper.logits calls the decoder with offset 0 on a cache of its own,
\* keeps nothing of what the decoder returns, and leaves the cache and the
\* offset of every decoding session as they were.
C7_LogitsLeavesSessions ==
    [][ (\E g \in Groups : Logits(<<g, 1>>, EncoderEngine(SessionMel)))
        => (/\ ret'.call # NoCall => (ret'.call.offset = 0 /\ ret'.call.id \notin DOMAIN heap)
            /\ heap' = heap
            /\ \A s \in Sessions :
                  /\ sess'[s].offset = sess[s].offset
                  /\ sess'[s].cache = sess[s].cache) ]_vars

\* what the k-th Step of a session yields when the session runs alone
Expected(k) ==
    LET size == new_kv_cache_size(type, dims, plan.group, plan.maxlen)
        before == SumTo(plan.steps, k - 1)
    IN  [tokens |-> [shape |-> <<plan.group, plan.steps[k]>>, tag |-> SessionTag],
         xa     |-> EncoderEngine(SessionMel),
         kv     |-> [shape |-> size,
                     data  |-> [p \in 1..plan.maxlen |->
                                  IF p <= before THEN SessionTag ELSE 0]],
         offset |-> before]

\* C8: two sessions with identical inputs yield, in every interleaving, what
\* a session yields when it runs alone, and no step of theirs fails.
C8_Isolation ==
    \A s \in Sessions :
        /\ \A k \in 1..Len(sess[s].out) : sess[s].out[k] = Expected(k)
        /\ ret.op = "session_step" => ret.status = "ok"

\* C9: every decoder call of Whisper.logits and Whisper.forward has a cache
\* whose group count is the first dimension of the tokens and whose length
\* is at least offset + step_len: the length is the last dimension of the
\* tokens and the offset is 0.
C9_OneStepPrecondition ==
    (ret.op \in {"logits", "forward"} /\ ret.call # NoCall) =>
        /\ ret.call.cache[2] = First(ret.call.tokens.shape)
        /\ ret.call.cache[3] = Last(ret.call.tokens.shape)
        /\ ret.call.offset = 0
        /\ ~Overflows(ret.call)
        /\ ret.status = "ok"

\* a one-step call on tokens whose group count differs from their length
C9_Witness ==
    /\ ret.op = "logits" /\ ret.call # NoCall
    /\ Len(ret.call.tokens.shape) = 2
    /\ First(ret.call.tokens.shape) < Last(ret.call.tokens.shape)

\* C10: on a model with an unsupported name no engine is ever invoked.
C10_NoEngineWorkWhenUnsupported ==
    type \notin SupportedNames => engineWork = {}

====
